---- MODULE Spec2Model ----
(***************************************************************************)
(* Parameter derivation of filecoin-proofs (parameters.rs): the challenge  *)
(* partitioner select_challenges, the PoRep setup builder setup_params     *)
(* with its facade public_params, and the winning / window PoSt setup      *)
(* builders with their facades.                                            *)
(*                                                                         *)
(* A call is modelled as a small machine: an entry action takes the        *)
(* arguments, the search loop of select_challenges runs one iteration per  *)
(* step, and the call ends in pc = "done" with its outcome in result.      *)
(* An outcome is Ok (a value), Err (an anyhow error returned to the        *)
(* caller) or Panic (the thread aborts: expect() on None, or an integer    *)
(* division / remainder by zero).                                          *)
(*                                                                         *)
(* The DRG seed (a SHA-256 digest) and the fixed graph degrees of          *)
(* stacked::SetupParams take no part in any control decision and are left  *)
(* out of the modelled SetupParams value.                                  *)
(*                                                                         *)
(* usize arithmetic is modelled on mathematical integers: within the       *)
(* ranges explored partitions * count stays far below usize::MAX.          *)
(***************************************************************************)
EXTENDS Integers, FiniteSets

VARIABLES
    POREP_MINIMUM_CHALLENGES, \* policy table: sector size -> minimum challenges
    LAYERS,                   \* policy table: sector size -> layers
    op,                       \* the entry point being executed
    pc,                       \* position inside the call
    sector_bytes,             \* argument of setup_params / public_params
    partitions,               \* argument of select_challenges / setup_params
    minimum_total_challenges, \* argument of select_challenges
    layers,                   \* argument of select_challenges
    post_config,              \* argument of the PoSt builders
    count,                    \* select_challenges: let mut count
    guess,                    \* select_challenges: let mut guess
    iterations,               \* number of times the loop body has run
    result,                   \* outcome of the call
    setup_calls               \* calls made to the external scheme's setup

vars == << POREP_MINIMUM_CHALLENGES, LAYERS, op, pc, sector_bytes, partitions,
           minimum_total_challenges, layers, post_config, count, guess,
           iterations, result, setup_calls >>

(***************************************************************************)
(* Bounds of the exploration.                                              *)
(***************************************************************************)
MaxPartitions == 4
MaxMinimum == 12
MaxLayers == 11
MaxChallengeCount == 67
MaxSectorCount == 4

\* Sector sizes offered to setup_params and as keys of the policy tables:
\* zero, a non-multiple of 32, and a positive multiple of 32.
SectorSizes == {0, 33, 64}

\* Sector sizes of a PoStConfig.
PoStSectorSizes == {33, 2048}

(***************************************************************************)
(* Outcomes of a call.                                                     *)
(***************************************************************************)
NoValue == [none |-> TRUE]

NoResult == [kind |-> "None", err |-> "", value |-> NoValue]

Ok(v) == [kind |-> "Ok", err |-> "", value |-> v]

Err(e) == [kind |-> "Err", err |-> e, value |-> NoValue]

Panic(e) == [kind |-> "Panic", err |-> e, value |-> NoValue]

\* ensure!(challenge_count % sector_count == 0, ...)
IndivisibleChallengeCount == "sector count must divide challenge count"

\* ensure!(param_sector_count * param_challenge_count == challenge_count, ...)
InternalInconsistency == "invald parameters calculated"

\* ensure!(sector_bytes % 32 == 0, ...)
InvalidSectorSize == "sector_bytes must be a multiple of 32"

\* .expect("unknown sector size") on a key the table does not hold
UnknownSectorSize == "unknown sector size"

\* Rust's panic on x % 0 and on x / 0
RemainderByZero == "attempt to calculate the remainder with a divisor of zero"

DivideByZero == "attempt to divide by zero"

(***************************************************************************)
(* LayerChallenges (storage_proofs::porep::stacked).  Its body is not part *)
(* of the sources at hand; partition_layer_challenges_test fixes what it   *)
(* does: with 11 layers and a minimum of 12, challenges_count_all() of the *)
(* selected plan is 12, 6 and 3 for 1, 2 and 4 partitions, which is the    *)
(* per-layer count the search loop stopped at, not that count times the    *)
(* number of layers (a multiple of 11).                                    *)
(***************************************************************************)
LayerChallenges_new(l, c) == [layers |-> l, max_count |-> c]

challenges_count_all(lc) == lc.max_count

NoGuess == LayerChallenges_new(0, 0)

(***************************************************************************)
(* select_challenges: the condition of its while loop.                     *)
(***************************************************************************)
\* mutations of the loop condition: the bound missed by one, the layers
\* counted as well, and <= for <
LoopCond_OffByOne(p, g, m) == p * challenges_count_all(g) < m - 1

LoopCond_CountsLayers(p, g, m) == p * g.layers * challenges_count_all(g) < m

LoopCond_LessEq(p, g, m) == p * challenges_count_all(g) <= m

LoopCond(p, g, m) == p * challenges_count_all(g) < m

\* mutation of the first count tried: the search starts at zero
InitialCount_Zero == 1 - 1

\* let mut count = 1
InitialCount == 1

(***************************************************************************)
(* PoStConfig and the PoSt setup builders.                                 *)
(***************************************************************************)
NoConfig == [typ |-> "None", challenge_count |-> 0, sector_count |-> 0,
             sector_size |-> 0]

PoStConfigs == [typ : {"Winning", "Window"},
                challenge_count : 0..MaxChallengeCount,
                sector_count : 0..MaxSectorCount,
                sector_size : PoStSectorSizes]

\* PoStConfig::padded_sector_size followed by .into(): the configured
\* sector size as a padded byte amount, then as u64.
padded_sector_size(cfg) == cfg.sector_size

\* mutation: the condition of the first ensure! inverted
DividesCheck_Inverted(cfg) == cfg.challenge_count % cfg.sector_count # 0

DividesCheck(cfg) == cfg.challenge_count % cfg.sector_count = 0

\* mutation: the sector count passed through, as the window variant does
param_sector_count_PassThrough(cfg) == cfg.sector_count

param_sector_count(cfg) == cfg.challenge_count \div cfg.sector_count

\* mutation: divided by the configured sector count a second time
param_challenge_count_BySectorCount(cfg) ==
    cfg.challenge_count \div cfg.sector_count

param_challenge_count(cfg) == cfg.challenge_count \div param_sector_count(cfg)

ConsistencyCheck(cfg) ==
    param_sector_count(cfg) * param_challenge_count(cfg) = cfg.challenge_count

PoStSetupParams(size, challenges, sectors) ==
    [sector_size |-> size, challenge_count |-> challenges,
     sector_count |-> sectors]

winning_post_setup_params(cfg) ==
    IF cfg.sector_count = 0 THEN Panic(RemainderByZero)
    ELSE IF ~DividesCheck(cfg) THEN Err(IndivisibleChallengeCount)
    ELSE IF param_sector_count(cfg) = 0 THEN Panic(DivideByZero)
    ELSE IF ~ConsistencyCheck(cfg) THEN Err(InternalInconsistency)
    ELSE Ok(PoStSetupParams(padded_sector_size(cfg),
                            param_challenge_count(cfg),
                            param_sector_count(cfg)))

window_post_setup_params(cfg) ==
    PoStSetupParams(padded_sector_size(cfg), cfg.challenge_count,
                    cfg.sector_count)

\* fallback::FallbackPoSt::setup: the public parameters carry the three
\* fields of the setup parameters (test_winning_post_params reads them back).
FallbackPoSt_setup(sp) ==
    Ok(PoStSetupParams(sp.sector_size, sp.challenge_count, sp.sector_count))

\* The ? operator of the facades: an Ok value goes on to the scheme's setup,
\* anything else is handed back as it is.
winning_post_public_params(cfg) ==
    LET r == winning_post_setup_params(cfg)
    IN  IF r.kind = "Ok" THEN FallbackPoSt_setup(r.value) ELSE r

window_post_public_params(cfg) ==
    FallbackPoSt_setup(window_post_setup_params(cfg))

(***************************************************************************)
(* The policy tables (crate::constants, RwLock<HashMap<u64, _>>): any set  *)
(* of registered sizes, each table on its own.                             *)
(***************************************************************************)
EmptyTable == [s \in {} |-> 0]

MinimumTables ==
    UNION {[D -> {0, MaxMinimum}] : D \in SUBSET SectorSizes}

LayersTables ==
    UNION {[D -> {MaxLayers}] : D \in SUBSET SectorSizes}

\* StackedDrg::setup: assumed total on the parameters it is given.
StackedDrg_setup(sp) == Ok(sp)

StackedSetupParams(n, lc) == [nodes |-> n, layer_challenges |-> lc]

(***************************************************************************)
(* Initial states: no call in progress.                                    *)
(***************************************************************************)
Idle ==
    /\ op = "none"
    /\ pc = "idle"
    /\ sector_bytes = 0
    /\ partitions = 0
    /\ minimum_total_challenges = 0
    /\ layers = 0
    /\ post_config = NoConfig
    /\ count = 0
    /\ guess = NoGuess
    /\ iterations = 0
    /\ result = NoResult
    /\ setup_calls = 0

InitSelect ==
    /\ POREP_MINIMUM_CHALLENGES = EmptyTable
    /\ LAYERS = EmptyTable
    /\ Idle

InitPoSt == InitSelect

Init ==
    /\ POREP_MINIMUM_CHALLENGES \in MinimumTables
    /\ LAYERS \in LayersTables
    /\ Idle

Tables == << POREP_MINIMUM_CHALLENGES, LAYERS >>

(***************************************************************************)
(* select_challenges                                                       *)
(***************************************************************************)
\* let mut count = 1; let mut guess = LayerChallenges::new(layers, count);
SelectEnter(p, m, l) ==
    /\ partitions' = p
    /\ minimum_total_challenges' = m
    /\ layers' = l
    /\ count' = InitialCount
    /\ guess' = LayerChallenges_new(l, InitialCount)
    /\ iterations' = 0
    /\ pc' = "select_loop"

CallSelectChallenges ==
    /\ pc = "idle"
    /\ \E p \in 1..MaxPartitions, m \in 0..MaxMinimum, l \in 1..MaxLayers :
          SelectEnter(p, m, l)
    /\ op' = "select_challenges"
    /\ UNCHANGED << Tables, sector_bytes, post_config, result, setup_calls >>

\* one run of the loop body: count += 1; guess = LayerChallenges::new(..)
SelectLoopBody ==
    /\ pc = "select_loop"
    /\ LoopCond(partitions, guess, minimum_total_challenges)
    /\ count' = count + 1
    /\ guess' = LayerChallenges_new(layers, count + 1)
    /\ iterations' = iterations + 1
    /\ UNCHANGED << Tables, op, pc, sector_bytes, partitions,
                    minimum_total_challenges, layers, post_config, result,
                    setup_calls >>

\* the loop condition is false: Ok(guess), to the caller of select_challenges
SelectReturn ==
    /\ pc = "select_loop"
    /\ ~LoopCond(partitions, guess, minimum_total_challenges)
    /\ \/ /\ op = "select_challenges"
          /\ result' = Ok(guess)
          /\ pc' = "done"
       \/ /\ op \in {"setup_params", "public_params"}
          /\ result' = result
          /\ pc' = "setup_check"
    /\ UNCHANGED << Tables, op, sector_bytes, partitions,
                    minimum_total_challenges, layers, post_config, count,
                    guess, iterations, setup_calls >>

(***************************************************************************)
(* setup_params and public_params                                          *)
(***************************************************************************)
\* The arguments of the call of select_challenges are evaluated first: both
\* table lookups end in expect(), which panics on a missing key.
SetupLookup(sb, p) ==
    /\ sector_bytes' = sb
    /\ IF sb \in DOMAIN POREP_MINIMUM_CHALLENGES /\ sb \in DOMAIN LAYERS
       THEN /\ SelectEnter(p, POREP_MINIMUM_CHALLENGES[sb], LAYERS[sb])
            /\ result' = result
       ELSE /\ result' = Panic(UnknownSectorSize)
            /\ pc' = "done"
            /\ partitions' = p
            /\ UNCHANGED << minimum_total_challenges, layers, count, guess,
                            iterations >>

CallSetupParams ==
    /\ pc = "idle"
    /\ \E sb \in SectorSizes, p \in 1..MaxPartitions : SetupLookup(sb, p)
    /\ op' = "setup_params"
    /\ UNCHANGED << Tables, post_config, setup_calls >>

CallPublicParams ==
    /\ pc = "idle"
    /\ \E sb \in SectorSizes, p \in 1..MaxPartitions : SetupLookup(sb, p)
    /\ op' = "public_params"
    /\ UNCHANGED << Tables, post_config, setup_calls >>

\* what setup_params returns once select_challenges has returned guess
SetupParamsResult(sb, lc) ==
    IF sb % 32 # 0 THEN Err(InvalidSectorSize)
    ELSE Ok(StackedSetupParams(sb \div 32, lc))

\* the rest of setup_params, and for public_params the ? and the setup call
SetupCheck ==
    /\ pc = "setup_check"
    /\ LET r == SetupParamsResult(sector_bytes, guess)
       IN  IF op = "public_params" /\ r.kind = "Ok"
           THEN /\ result' = StackedDrg_setup(r.value)
                /\ setup_calls' = setup_calls + 1
           ELSE /\ result' = r
                /\ setup_calls' = setup_calls
    /\ pc' = "done"
    /\ UNCHANGED << Tables, op, sector_bytes, partitions,
                    minimum_total_challenges, layers, post_config, count,
                    guess, iterations >>

(***************************************************************************)
(* The PoSt builders and their facades                                     *)
(***************************************************************************)
PoStUnchanged ==
    UNCHANGED << Tables, sector_bytes, partitions, minimum_total_challenges,
                 layers, count, guess, iterations >>

CallWinningPostSetupParams ==
    /\ pc = "idle"
    /\ \E cfg \in PoStConfigs :
          /\ post_config' = cfg
          /\ result' = winning_post_setup_params(cfg)
    /\ op' = "winning_post_setup_params"
    /\ setup_calls' = 0
    /\ pc' = "done"
    /\ PoStUnchanged

CallWinningPostPublicParams ==
    /\ pc = "idle"
    /\ \E cfg \in PoStConfigs :
          /\ post_config' = cfg
          /\ result' = winning_post_public_params(cfg)
          /\ setup_calls' =
                IF winning_post_setup_params(cfg).kind = "Ok" THEN 1 ELSE 0
    /\ op' = "winning_post_public_params"
    /\ pc' = "done"
    /\ PoStUnchanged

CallWindowPostSetupParams ==
    /\ pc = "idle"
    /\ \E cfg \in PoStConfigs :
          /\ post_config' = cfg
          /\ result' = Ok(window_post_setup_params(cfg))
    /\ op' = "window_post_setup_params"
    /\ setup_calls' = 0
    /\ pc' = "done"
    /\ PoStUnchanged

CallWindowPostPublicParams ==
    /\ pc = "idle"
    /\ \E cfg \in PoStConfigs :
          /\ post_config' = cfg
          /\ result' = window_post_public_params(cfg)
    /\ op' = "window_post_public_params"
    /\ setup_calls' = 1
    /\ pc' = "done"
    /\ PoStUnchanged

(***************************************************************************)
(* The call is over; the next one starts from scratch.                     *)
(***************************************************************************)
Return ==
    /\ pc = "done"
    /\ op' = "none"
    /\ pc' = "idle"
    /\ sector_bytes' = 0
    /\ partitions' = 0
    /\ minimum_total_challenges' = 0
    /\ layers' = 0
    /\ post_config' = NoConfig
    /\ count' = 0
    /\ guess' = NoGuess
    /\ iterations' = 0
    /\ result' = NoResult
    /\ setup_calls' = 0
    /\ UNCHANGED Tables

(***************************************************************************)
(* Specifications                                                          *)
(***************************************************************************)
NextSelect ==
    \/ CallSelectChallenges
    \/ SelectLoopBody
    \/ SelectReturn
    \/ Return

NextPoSt ==
    \/ CallWinningPostSetupParams
    \/ CallWinningPostPublicParams
    \/ CallWindowPostSetupParams
    \/ CallWindowPostPublicParams
    \/ Return

Next ==
    \/ CallSetupParams
    \/ CallPublicParams
    \/ SelectLoopBody
    \/ SelectReturn
    \/ SetupCheck
    \/ Return

\* select_challenges called on its own; a running call keeps running
SpecSelect ==
    InitSelect /\ [][NextSelect]_vars
        /\ WF_vars(SelectLoopBody) /\ WF_vars(SelectReturn)

\* the PoSt builders and facades
SpecPoSt == InitPoSt /\ [][NextPoSt]_vars

\* setup_params and public_params over the policy tables
Spec == Init /\ [][Next]_vars

(***************************************************************************)
(* Properties                                                              *)
(***************************************************************************)
SelectDone == op = "select_challenges" /\ pc = "done"

WinningSetupDone == op = "winning_post_setup_params" /\ pc = "done"

WinningFacadeDone == op = "winning_post_public_params" /\ pc = "done"

\* the smallest c >= 1 with k * c >= m
SmallestCount(k, m) ==
    CHOOSE c \in 1..(m + 1) :
        /\ k * c >= m
        /\ \A d \in 1..(c - 1) : k * d < m

CeilDiv(m, k) == (m + k - 1) \div k

Max(a, b) == IF a >= b THEN a ELSE b

\* C1, as stated: the plan returned by select_challenges(p, m, l) has
\* challenges_count_all() >= m.
C1_Original ==
    SelectDone =>
        challenges_count_all(result.value) >= minimum_total_challenges

\* C1, amended: the plan returned by select_challenges(p, m, l) has
\* p * challenges_count_all() >= m: the minimum is met by the challenges of
\* all partitions together, not by those of one partition.
C1_Amended ==
    SelectDone =>
        /\ result.kind = "Ok"
        /\ partitions * challenges_count_all(result.value)
              >= minimum_total_challenges

C1_Witness ==
    /\ SelectDone
    /\ partitions = 2
    /\ minimum_total_challenges = 12
    /\ challenges_count_all(result.value) = 6

\* C2, as stated: the per-layer count of the returned plan is the smallest
\* c >= 1 with p * l * c >= m, that is max(1, ceil(m / (p * l))).
C2_Original ==
    SelectDone =>
        /\ result.value.max_count
              = SmallestCount(partitions * layers, minimum_total_challenges)
        /\ result.value.max_count
              = Max(1, CeilDiv(minimum_total_challenges, partitions * layers))

\* C2, amended: select_challenges(p, m, l) returns the plan of l layers
\* whose per-layer count is the smallest c >= 1 with p * c >= m; the
\* stopping condition of the loop counts the partitions and not the layers,
\* and the count equals the closed form max(1, ceil(m / p)).
C2_Amended ==
    SelectDone =>
        /\ result.kind = "Ok"
        /\ result.value.layers = layers
        /\ result.value.max_count
              = SmallestCount(partitions, minimum_total_challenges)
        /\ result.value.max_count
              = Max(1, CeilDiv(minimum_total_challenges, partitions))

\* a call where the two readings differ: 1 * 11 * 1 >= 5, yet the count is 5
C2_Witness ==
    /\ SelectDone
    /\ partitions = 1
    /\ layers = 11
    /\ minimum_total_challenges = 5
    /\ result.value = LayerChallenges_new(11, 5)

\* C3: challenges_count_all() of the plan returned by
\* select_challenges(p, m, l) is the smallest c >= 1 with p * c >= m,
\* whatever l is; for m = 12 and l = 11 it is 12, 6 and 3 for p = 1, 2, 4.
C3_Theorem ==
    SelectDone =>
        LET all == challenges_count_all(result.value)
            p == partitions
            m == minimum_total_challenges
        IN  /\ all >= 1
            /\ p * all >= m
            /\ \A d \in 1..(all - 1) : p * d < m
            /\ (m = 12 /\ layers = 11 /\ p = 1) => all = 12
            /\ (m = 12 /\ layers = 11 /\ p = 2) => all = 6
            /\ (m = 12 /\ layers = 11 /\ p = 4) => all = 3

C3_Witness ==
    /\ SelectDone
    /\ partitions = 4
    /\ layers = 11
    /\ minimum_total_challenges = 12
    /\ challenges_count_all(result.value) = 3

\* C8: select_challenges never fails: its loop terminates and it returns Ok
\* with a per-layer count >= 1; with a minimum of 0 the loop body never runs
\* and the count is exactly 1.
C8_Theorem ==
    /\ [](SelectDone =>
            /\ result.kind = "Ok"
            /\ result.value.max_count >= 1
            /\ (minimum_total_challenges = 0 =>
                    iterations = 0 /\ result.value.max_count = 1))
    /\ ((op = "select_challenges" /\ pc = "select_loop") ~> SelectDone)

C8_Witness ==
    /\ SelectDone
    /\ minimum_total_challenges = 0
    /\ iterations = 0
    /\ result = Ok(LayerChallenges_new(layers, 1))

\* C4: when winning_post_setup_params succeeds on challenge count C and
\* sector count S, the result has sector_count = C / S, challenge_count = S,
\* their product is C, and sector_size is the configured (padded) sector
\* size; C = 66, S = 1, size 2048 gives 66, 1, 2048.
C4_Theorem ==
    (WinningSetupDone /\ result.kind = "Ok") =>
        LET C == post_config.challenge_count
            S == post_config.sector_count
            v == result.value
        IN  /\ S > 0
            /\ v.sector_count = C \div S
            /\ v.challenge_count = S
            /\ v.sector_count * v.challenge_count = C
            /\ v.sector_size = post_config.sector_size
            /\ (C = 66 /\ S = 1 /\ post_config.sector_size = 2048) =>
                   v = PoStSetupParams(2048, 1, 66)

\* a success where the counts really are swapped (S # C / S)
C4_Witness ==
    /\ WinningSetupDone
    /\ post_config.challenge_count = 66
    /\ post_config.sector_count = 1
    /\ post_config.sector_size = 2048
    /\ result = Ok(PoStSetupParams(2048, 1, 66))

\* C5: with a positive sector count that does not divide the challenge
\* count, winning_post_setup_params returns the IndivisibleChallengeCount
\* error and no parameters, and winning_post_public_params returns the same
\* error without calling the scheme's setup.
C5_Theorem ==
    (/\ pc = "done"
     /\ post_config.sector_count > 0
     /\ post_config.challenge_count % post_config.sector_count # 0) =>
        /\ op = "winning_post_setup_params" =>
              result = Err(IndivisibleChallengeCount)
        /\ op = "winning_post_public_params" =>
              /\ result = Err(IndivisibleChallengeCount)
              /\ setup_calls = 0

C5_Witness ==
    /\ WinningFacadeDone
    /\ post_config.challenge_count = 67
    /\ post_config.sector_count = 2
    /\ result = Err(IndivisibleChallengeCount)
    /\ setup_calls = 0

\* C6: for every sector_bytes that is not a positive multiple of 32,
\* setup_params fails with the InvalidSectorSize error, registered in the
\* policy tables or not.
C6_Claim ==
    (/\ op = "setup_params"
     /\ pc = "done"
     /\ ~(sector_bytes > 0 /\ sector_bytes % 32 = 0)) =>
        result = Err(InvalidSectorSize)

\* C7: for every sector size missing from a policy table, setup_params
\* returns an UnknownSectorSize error value, and public_params hands the
\* same error on.
C7_Claim ==
    (/\ op \in {"setup_params", "public_params"}
     /\ pc = "done"
     /\ \/ sector_bytes \notin DOMAIN POREP_MINIMUM_CHALLENGES
        \/ sector_bytes \notin DOMAIN LAYERS) =>
        result = Err(UnknownSectorSize)

\* C9: for every PoSt config, zero counts included, the call of
\* winning_post_setup_params ends with parameters or with an error value,
\* never with an abort.
C9_Claim ==
    WinningSetupDone => result.kind \in {"Ok", "Err"}

\* C10: for positive challenge and sector counts that pass the divisibility
\* check, param_sector_count * param_challenge_count = challenge_count, the
\* InternalInconsistency outcome does not occur and the call succeeds.
C10_Theorem ==
    (/\ WinningSetupDone
     /\ post_config.challenge_count > 0
     /\ post_config.sector_count > 0
     /\ post_config.challenge_count % post_config.sector_count = 0) =>
        /\ ConsistencyCheck(post_config)
        /\ result.err # InternalInconsistency
        /\ result.kind = "Ok"

C10_Witness ==
    /\ WinningSetupDone
    /\ post_config.challenge_count = 12
    /\ post_config.sector_count = 4
    /\ result.kind = "Ok"
    /\ result.value.sector_count = 3
    /\ result.value.challenge_count = 4

====
